---- MODULE Spec2Model ----
(***************************************************************************)
(* Falcon-Hunter Chess (src/ChessVar.py): the rules engine as a state      *)
(* machine.  A square "a1".."h8" is the pair <<col, row>> with             *)
(* col = ord(file) - ord('a') + 1 and row = int(rank); a piece symbol is    *)
(* the one-character string the source stores in the board dictionary.     *)
(***************************************************************************)
EXTENDS Integers, Sequences, FiniteSets, TLC

VARIABLES board, turn, game_state, lost_major_pieces, fairy_pieces_placed, call

vars == <<board, turn, game_state, lost_major_pieces, fairy_pieces_placed, call>>

(***************************************************************************)
(* Bounds on the calls the two players make.                               *)
(***************************************************************************)
\* how many squares of SquareList the players name in their calls
NumInputSquares == 8
\* how many symbols of PieceList the players name in enter_fairy_piece
NumPieceInputs == 4

\* g1 f3 d4 c6 b8 d8 e8 e1, then g5 a7
SquareList ==
  << <<7, 1>>, <<6, 3>>, <<4, 4>>, <<3, 6>>, <<2, 8>>,
     <<4, 8>>, <<5, 8>>, <<5, 1>>, <<7, 5>>, <<1, 7>> >>

PieceList == << "f", "h", "P", "F", "H", "Q" >>

Min(a, b) == IF a < b THEN a ELSE b

InputSquares == { SquareList[i] : i \in 1..Min(NumInputSquares, Len(SquareList)) }

\* a string that is no key of the board dictionary ("a9")
OffBoardInputs == { <<1, 9>> }

SquareInputs == InputSquares \cup OffBoardInputs

\* "X" is no key of the piece mapping
PieceInputs == { PieceList[i] : i \in 1..Min(NumPieceInputs, Len(PieceList)) } \cup {"X"}

(***************************************************************************)
(* Symbols, colours, squares.                                              *)
(***************************************************************************)
\* Python's None, as a value a lookup returns
None == "None"

\* None passed where a square is expected (update_board's start on a placement)
NoSquare == <<>>

Squares64 == (1..8) \X (1..8)

UpperSymbols == {"P", "R", "N", "B", "Q", "K", "F", "H"}

LowerSymbols == {"p", "r", "n", "b", "q", "k", "f", "h"}

Symbols == UpperSymbols \cup LowerSymbols \cup {"."}

\* str.isupper / str.islower on a one-character symbol; "." is neither
isupper(s) == s \in UpperSymbols \cup {"X"}

islower(s) == s \in LowerSymbols

\* str.upper on a board symbol
upper(s) ==
  CASE s \in {"P", "p"} -> "P"
    [] s \in {"R", "r"} -> "R"
    [] s \in {"N", "n"} -> "N"
    [] s \in {"B", "b"} -> "B"
    [] s \in {"Q", "q"} -> "Q"
    [] s \in {"K", "k"} -> "K"
    [] s \in {"F", "f"} -> "F"
    [] s \in {"H", "h"} -> "H"
    [] OTHER -> s

\* Board._piece_mapping: symbol -> piece class
piece_mapping ==
  [s \in UpperSymbols \cup LowerSymbols |->
     CASE upper(s) = "P" -> "Pawn"
       [] upper(s) = "R" -> "Rook"
       [] upper(s) = "N" -> "Knight"
       [] upper(s) = "B" -> "Bishop"
       [] upper(s) = "Q" -> "Queen"
       [] upper(s) = "K" -> "King"
       [] upper(s) = "F" -> "Falcon"
       [] upper(s) = "H" -> "Hunter"]

\* dict.get(key, None)
DictGet(d, k) == IF k \in DOMAIN d THEN d[k] ELSE None

\* d[k] = v on a Python dictionary: the key is added when absent
DictSet(d, k, v) == [x \in (DOMAIN d) \cup {k} |-> IF x = k THEN v ELSE d[x]]

\* the starting position
InitialBoard ==
  [sq \in Squares64 |->
     LET col == sq[1]
         row == sq[2]
         back == <<"R", "N", "B", "Q", "K", "B", "N", "R">>
         backBlack == <<"r", "n", "b", "q", "k", "b", "n", "r">>
     IN CASE row = 1 -> back[col]
          [] row = 2 -> "P"
          [] row = 7 -> "p"
          [] row = 8 -> backBlack[col]
          [] OTHER -> "."]

(***************************************************************************)
(* Board.get_opponent_pieces                                               *)
(***************************************************************************)
\* mutant of get_opponent_pieces: the pieces of the asking colour are returned
get_opponent_pieces_own(b, color) ==
  IF color = "white"
    THEN { <<pos, b[pos]>> : pos \in { p \in DOMAIN b : isupper(b[p]) } }
    ELSE { <<pos, b[pos]>> : pos \in { p \in DOMAIN b : islower(b[p]) } }

get_opponent_pieces(b, color) ==
  IF color = "white"
    THEN { <<pos, b[pos]>> : pos \in { p \in DOMAIN b : islower(b[p]) } }
    ELSE { <<pos, b[pos]>> : pos \in { p \in DOMAIN b : isupper(b[p]) } }

\* any(pos == newPos for pos, _ in get_opponent_pieces(color))
IsOpponentAt(b, color, newPos) ==
  \E op \in get_opponent_pieces(b, color) : op[1] = newPos

(***************************************************************************)
(* The move rules: get_valid_moves of each piece class, as the set of the  *)
(* squares the source appends to valid_moves.                              *)
(***************************************************************************)
\* mutant of Pawn_get_valid_moves: a square that is no key of the board counts as empty
Pawn_get_valid_moves_default_empty(b, color, pos) ==
  LET row == pos[2]
      col == pos[1]
      forward_row == IF color = "white" THEN row + 1 ELSE row - 1
      forward_pos == <<col, forward_row>>
      double_forward_row == IF color = "white" THEN row + 2 ELSE row - 2
      double_forward_pos == <<col, double_forward_row>>
      forward ==
        IF DictGet(b, forward_pos) \in {".", None}
          THEN {forward_pos} \cup
               (IF (color = "white" /\ row = 2) \/ (color = "black" /\ row = 7)
                  THEN (IF DictGet(b, double_forward_pos) \in {".", None}
                          THEN {double_forward_pos} ELSE {})
                  ELSE {})
          ELSE {}
      capture ==
        { capture_pos \in { <<col - 1, forward_row>>, <<col + 1, forward_row>> } :
            IsOpponentAt(b, color, capture_pos) }
  IN forward \cup capture

\* mutant of Pawn_get_valid_moves: the double step does not need the single step square to be empty
Pawn_get_valid_moves_jump(b, color, pos) ==
  LET row == pos[2]
      col == pos[1]
      forward_row == IF color = "white" THEN row + 1 ELSE row - 1
      forward_pos == <<col, forward_row>>
      double_forward_row == IF color = "white" THEN row + 2 ELSE row - 2
      double_forward_pos == <<col, double_forward_row>>
      forward ==
        (IF DictGet(b, forward_pos) = "." THEN {forward_pos} ELSE {}) \cup
        (IF /\ (color = "white" /\ row = 2) \/ (color = "black" /\ row = 7)
            /\ DictGet(b, double_forward_pos) = "."
           THEN {double_forward_pos} ELSE {})
      capture ==
        { capture_pos \in { <<col - 1, forward_row>>, <<col + 1, forward_row>> } :
            IsOpponentAt(b, color, capture_pos) }
  IN forward \cup capture

\* mutant of Pawn_get_valid_moves: the landing square of the double step is not looked at
Pawn_get_valid_moves_unchecked_landing(b, color, pos) ==
  LET row == pos[2]
      col == pos[1]
      forward_row == IF color = "white" THEN row + 1 ELSE row - 1
      forward_pos == <<col, forward_row>>
      double_forward_row == IF color = "white" THEN row + 2 ELSE row - 2
      double_forward_pos == <<col, double_forward_row>>
      forward ==
        IF DictGet(b, forward_pos) = "."
          THEN {forward_pos} \cup
               (IF (color = "white" /\ row = 2) \/ (color = "black" /\ row = 7)
                  THEN {double_forward_pos}
                  ELSE {})
          ELSE {}
      capture ==
        { capture_pos \in { <<col - 1, forward_row>>, <<col + 1, forward_row>> } :
            IsOpponentAt(b, color, capture_pos) }
  IN forward \cup capture

\* mutant of Pawn_get_valid_moves: a diagonal step onto any piece is a capture
Pawn_get_valid_moves_any_capture(b, color, pos) ==
  LET row == pos[2]
      col == pos[1]
      forward_row == IF color = "white" THEN row + 1 ELSE row - 1
      forward_pos == <<col, forward_row>>
      double_forward_row == IF color = "white" THEN row + 2 ELSE row - 2
      double_forward_pos == <<col, double_forward_row>>
      forward ==
        IF DictGet(b, forward_pos) = "."
          THEN {forward_pos} \cup
               (IF (color = "white" /\ row = 2) \/ (color = "black" /\ row = 7)
                  THEN (IF DictGet(b, double_forward_pos) = "."
                          THEN {double_forward_pos} ELSE {})
                  ELSE {})
          ELSE {}
      capture ==
        { capture_pos \in { <<col - 1, forward_row>>, <<col + 1, forward_row>> } :
            DictGet(b, capture_pos) \notin {".", None} }
  IN forward \cup capture

Pawn_get_valid_moves(b, color, pos) ==
  LET row == pos[2]
      col == pos[1]
      forward_row == IF color = "white" THEN row + 1 ELSE row - 1
      forward_pos == <<col, forward_row>>
      double_forward_row == IF color = "white" THEN row + 2 ELSE row - 2
      double_forward_pos == <<col, double_forward_row>>
      forward ==
        IF DictGet(b, forward_pos) = "."
          THEN {forward_pos} \cup
               (IF (color = "white" /\ row = 2) \/ (color = "black" /\ row = 7)
                  THEN (IF DictGet(b, double_forward_pos) = "."
                          THEN {double_forward_pos} ELSE {})
                  ELSE {})
          ELSE {}
      capture ==
        { capture_pos \in { <<col - 1, forward_row>>, <<col + 1, forward_row>> } :
            IsOpponentAt(b, color, capture_pos) }
  IN forward \cup capture

\* mutant of SlideFrom: a capture does not end the slide
RECURSIVE SlideFrom_capture_goes_on(_, _, _, _, _, _)
SlideFrom_capture_goes_on(b, color, row, col, direction, index) ==
  IF index > 7 THEN {}
  ELSE LET newRow == row + direction[1] * index
           newCol == col + direction[2] * index
           newPos == <<newCol, newRow>>
       IN IF newRow \in 1..8 /\ newCol \in 1..8
            THEN IF DictGet(b, newPos) = "."
                   THEN {newPos} \cup
                        SlideFrom_capture_goes_on(b, color, row, col, direction, index + 1)
                   ELSE IF IsOpponentAt(b, color, newPos)
                          THEN {newPos} \cup
                               SlideFrom_capture_goes_on(b, color, row, col, direction, index + 1)
                          ELSE {}
            ELSE SlideFrom_capture_goes_on(b, color, row, col, direction, index + 1)

\* one direction of a sliding piece: for index in range(1, 8) ... break
RECURSIVE SlideFrom(_, _, _, _, _, _)
SlideFrom(b, color, row, col, direction, index) ==
  IF index > 7 THEN {}
  ELSE LET newRow == row + direction[1] * index
           newCol == col + direction[2] * index
           newPos == <<newCol, newRow>>
       IN IF newRow \in 1..8 /\ newCol \in 1..8
            THEN IF DictGet(b, newPos) = "."
                   THEN {newPos} \cup SlideFrom(b, color, row, col, direction, index + 1)
                   ELSE IF IsOpponentAt(b, color, newPos) THEN {newPos} ELSE {}
            ELSE SlideFrom(b, color, row, col, direction, index + 1)

Slide(b, color, pos, directions) ==
  UNION { SlideFrom(b, color, pos[2], pos[1], d, 1) : d \in directions }

\* mutant of Step: a square holding any piece is accepted
Step_any_occupant(b, color, pos, moves) ==
  { newPos \in { <<pos[1] + m[2], pos[2] + m[1]>> : m \in moves } :
      newPos[2] \in 1..8 /\ newPos[1] \in 1..8 }

\* one step per offset: Knight and King
Step(b, color, pos, moves) ==
  { newPos \in { <<pos[1] + m[2], pos[2] + m[1]>> : m \in moves } :
      /\ newPos[2] \in 1..8 /\ newPos[1] \in 1..8
      /\ \/ DictGet(b, newPos) = "."
         \/ IsOpponentAt(b, color, newPos) }

RookDirections == { <<1, 0>>, <<-1, 0>>, <<0, 1>>, <<0, -1>> }

BishopDirections == { <<-1, -1>>, <<-1, 1>>, <<1, -1>>, <<1, 1>> }

\* mutant of QueenDirections: one diagonal is missing
QueenDirections_seven ==
  { <<1, 0>>, <<-1, 0>>, <<0, 1>>, <<0, -1>>, <<-1, -1>>, <<-1, 1>>, <<1, -1>> }

QueenDirections ==
  { <<1, 0>>, <<-1, 0>>, <<0, 1>>, <<0, -1>>, <<-1, -1>>, <<-1, 1>>, <<1, -1>>, <<1, 1>> }

KnightMoves ==
  { <<2, 1>>, <<2, -1>>, <<-2, 1>>, <<-2, -1>>, <<1, 2>>, <<1, -2>>, <<-1, 2>>, <<-1, -2>> }

KingDirections ==
  { <<1, 0>>, <<-1, 0>>, <<0, 1>>, <<0, -1>>, <<-1, -1>>, <<-1, 1>>, <<1, -1>>, <<1, 1>> }

\* mutant of FalconDirections: the directions do not flip with the colour
FalconDirections_no_flip(color) == { <<-1, 0>>, <<1, 1>>, <<1, -1>> }

FalconDirections(color) ==
  IF color = "white" THEN { <<-1, 0>>, <<1, 1>>, <<1, -1>> }
                     ELSE { <<1, 0>>, <<-1, -1>>, <<-1, 1>> }

HunterDirections(color) ==
  IF color = "white" THEN { <<1, 0>>, <<-1, -1>>, <<-1, 1>> }
                     ELSE { <<-1, 0>>, <<1, -1>>, <<1, 1>> }

Rook_get_valid_moves(b, color, pos) == Slide(b, color, pos, RookDirections)

Knight_get_valid_moves(b, color, pos) == Step(b, color, pos, KnightMoves)

Bishop_get_valid_moves(b, color, pos) == Slide(b, color, pos, BishopDirections)

Queen_get_valid_moves(b, color, pos) == Slide(b, color, pos, QueenDirections)

King_get_valid_moves(b, color, pos) == Step(b, color, pos, KingDirections)

Falcon_get_valid_moves(b, color, pos) == Slide(b, color, pos, FalconDirections(color))

Hunter_get_valid_moves(b, color, pos) == Slide(b, color, pos, HunterDirections(color))

\* piece_class(start, piece_color, board).get_valid_moves(start)
get_valid_moves(piece_class, b, color, pos) ==
  CASE piece_class = "Pawn" -> Pawn_get_valid_moves(b, color, pos)
    [] piece_class = "Rook" -> Rook_get_valid_moves(b, color, pos)
    [] piece_class = "Knight" -> Knight_get_valid_moves(b, color, pos)
    [] piece_class = "Bishop" -> Bishop_get_valid_moves(b, color, pos)
    [] piece_class = "Queen" -> Queen_get_valid_moves(b, color, pos)
    [] piece_class = "King" -> King_get_valid_moves(b, color, pos)
    [] piece_class = "Falcon" -> Falcon_get_valid_moves(b, color, pos)
    [] piece_class = "Hunter" -> Hunter_get_valid_moves(b, color, pos)

is_valid_move(piece_class, b, color, start, end) ==
  end \in get_valid_moves(piece_class, b, color, start)

(***************************************************************************)
(* The game object: ChessVar and its Board, as one record.                 *)
(***************************************************************************)
State ==
  [ board |-> board, turn |-> turn, game_state |-> game_state,
    lost_major_pieces |-> lost_major_pieces,
    fairy_pieces_placed |-> fairy_pieces_placed ]

\* mutant of switch_turn: the turn is set, not toggled
switch_turn_set_white(st) == [st EXCEPT !.turn = "white"]

switch_turn(st) ==
  IF st.turn = "white" THEN [st EXCEPT !.turn = "black"]
                       ELSE [st EXCEPT !.turn = "white"]

MajorSymbols == {"Q", "R", "B", "N", "q", "r", "b", "n"}

\* del d[k] on a Python dictionary
DictDel(d, k) == [x \in (DOMAIN d) \ {k} |-> d[x]]

\* mutant of update_board: the starting square is deleted, not set to "."
update_board_del_start(st, piece, start, end) ==
  LET captured_piece == st.board[end]
      player_color == IF isupper(captured_piece) THEN "white" ELSE "black"
      lost ==
        IF captured_piece # "." /\ captured_piece \in MajorSymbols
          THEN [st.lost_major_pieces EXCEPT ![player_color] = Append(@, captured_piece)]
          ELSE st.lost_major_pieces
      placed == DictSet(st.board, end, piece)
  IN [st EXCEPT !.board = IF start # NoSquare THEN DictDel(placed, start) ELSE placed,
                !.lost_major_pieces = lost]

\* mutant of update_board: every captured piece is counted as a major piece
update_board_count_all(st, piece, start, end) ==
  LET captured_piece == st.board[end]
      player_color == IF isupper(captured_piece) THEN "white" ELSE "black"
      lost ==
        IF captured_piece # "."
          THEN [st.lost_major_pieces EXCEPT ![player_color] = Append(@, captured_piece)]
          ELSE st.lost_major_pieces
      cleared == IF start # NoSquare THEN DictSet(st.board, start, ".") ELSE st.board
  IN [st EXCEPT !.board = DictSet(cleared, end, piece), !.lost_major_pieces = lost]

update_board(st, piece, start, end) ==
  LET captured_piece == st.board[end]
      player_color == IF isupper(captured_piece) THEN "white" ELSE "black"
      lost ==
        IF captured_piece # "." /\ captured_piece \in MajorSymbols
          THEN [st.lost_major_pieces EXCEPT ![player_color] = Append(@, captured_piece)]
          ELSE st.lost_major_pieces
      cleared == IF start # NoSquare THEN DictSet(st.board, start, ".") ELSE st.board
  IN [st EXCEPT !.board = DictSet(cleared, end, piece), !.lost_major_pieces = lost]

\* mutant of register_fairy_piece_placement: the piece is recorded for both colours
register_fairy_piece_placement_both(st, piece, color) ==
  [st EXCEPT !.fairy_pieces_placed =
     [c \in DOMAIN st.fairy_pieces_placed |-> Append(st.fairy_pieces_placed[c], piece)]]

register_fairy_piece_placement(st, piece, color) ==
  [st EXCEPT !.fairy_pieces_placed[color] = Append(@, piece)]

InSeq(x, s) == \E i \in 1..Len(s) : s[i] = x

\* the value a call returns, with the game it leaves behind
Returns(st, value) == [st |-> st, ret |-> value]

\* mutant of wrong_turn: the colour of the piece is not compared with the turn
wrong_turn_never(piece_color, t) == FALSE

\* lines 43-44: the piece on the starting square is not of the colour to move
wrong_turn(piece_color, t) ==
  \/ (piece_color = "white" /\ t = "black")
  \/ (piece_color = "black" /\ t = "white")

\* mutant of make_move: the game state is never consulted
make_move_any_state(st, start, end) ==
  IF start \notin DOMAIN st.board \/ end \notin DOMAIN st.board
    THEN Returns(st, FALSE)
    ELSE
      LET piece_symbol == st.board[start]
          piece_color == IF isupper(piece_symbol) THEN "white" ELSE "black"
          piece_class == DictGet(piece_mapping, upper(piece_symbol))
      IN IF wrong_turn(piece_color, st.turn) THEN Returns(st, FALSE)
         ELSE IF piece_class # None
                 /\ is_valid_move(piece_class, st.board, piece_color, start, end)
           THEN IF st.board[end] = "K"
                  THEN Returns([update_board(st, piece_symbol, start, end)
                                  EXCEPT !.game_state = "BLACK_WON"], TRUE)
                ELSE IF st.board[end] = "k"
                  THEN Returns([update_board(st, piece_symbol, start, end)
                                  EXCEPT !.game_state = "WHITE_WON"], TRUE)
                ELSE Returns(update_board(switch_turn(st), piece_symbol, start, end), TRUE)
         ELSE Returns(st, FALSE)

\* mutant of make_move: the two winners are exchanged
make_move_swapped_winner(st, start, end) ==
  IF start \notin DOMAIN st.board \/ end \notin DOMAIN st.board
    THEN Returns(st, FALSE)
    ELSE
      LET piece_symbol == st.board[start]
          piece_color == IF isupper(piece_symbol) THEN "white" ELSE "black"
          piece_class == DictGet(piece_mapping, upper(piece_symbol))
      IN IF st.game_state \in {"WHITE_WON", "BLACK_WON"} THEN Returns(st, FALSE)
         ELSE IF wrong_turn(piece_color, st.turn) THEN Returns(st, FALSE)
         ELSE IF piece_class # None
                 /\ is_valid_move(piece_class, st.board, piece_color, start, end)
           THEN IF st.board[end] = "K"
                  THEN Returns([update_board(st, piece_symbol, start, end)
                                  EXCEPT !.game_state = "WHITE_WON"], TRUE)
                ELSE IF st.board[end] = "k"
                  THEN Returns([update_board(st, piece_symbol, start, end)
                                  EXCEPT !.game_state = "BLACK_WON"], TRUE)
                ELSE IF st.game_state = "UNFINISHED"
                  THEN Returns(update_board(switch_turn(st), piece_symbol, start, end), TRUE)
                ELSE Returns(st, FALSE)
         ELSE Returns(st, FALSE)

\* mutant of make_move: the turn is switched before the move is validated
make_move_switch_first(st, start, end) ==
  IF start \notin DOMAIN st.board \/ end \notin DOMAIN st.board
    THEN Returns(st, FALSE)
    ELSE
      LET piece_symbol == st.board[start]
          piece_color == IF isupper(piece_symbol) THEN "white" ELSE "black"
          piece_class == DictGet(piece_mapping, upper(piece_symbol))
      IN IF st.game_state \in {"WHITE_WON", "BLACK_WON"} THEN Returns(st, FALSE)
         ELSE IF wrong_turn(piece_color, st.turn) THEN Returns(st, FALSE)
         ELSE IF piece_class # None
           THEN IF is_valid_move(piece_class, st.board, piece_color, start, end)
                  THEN IF st.board[end] = "K"
                         THEN Returns([update_board(st, piece_symbol, start, end)
                                         EXCEPT !.game_state = "BLACK_WON"], TRUE)
                       ELSE IF st.board[end] = "k"
                         THEN Returns([update_board(st, piece_symbol, start, end)
                                         EXCEPT !.game_state = "WHITE_WON"], TRUE)
                       ELSE Returns(update_board(switch_turn(st), piece_symbol, start, end),
                                    TRUE)
                  ELSE Returns(switch_turn(st), FALSE)
         ELSE Returns(st, FALSE)

make_move(st, start, end) ==
  IF start \notin DOMAIN st.board \/ end \notin DOMAIN st.board
    THEN Returns(st, FALSE)
    ELSE
      LET piece_symbol == st.board[start]
          piece_color == IF isupper(piece_symbol) THEN "white" ELSE "black"
          piece_class == DictGet(piece_mapping, upper(piece_symbol))
      IN IF st.game_state \in {"WHITE_WON", "BLACK_WON"} THEN Returns(st, FALSE)
         ELSE IF wrong_turn(piece_color, st.turn) THEN Returns(st, FALSE)
         ELSE IF piece_class # None
                 /\ is_valid_move(piece_class, st.board, piece_color, start, end)
           THEN IF st.board[end] = "K"
                  THEN Returns([update_board(st, piece_symbol, start, end)
                                  EXCEPT !.game_state = "BLACK_WON"], TRUE)
                ELSE IF st.board[end] = "k"
                  THEN Returns([update_board(st, piece_symbol, start, end)
                                  EXCEPT !.game_state = "WHITE_WON"], TRUE)
                ELSE IF st.game_state = "UNFINISHED"
                  THEN Returns(update_board(switch_turn(st), piece_symbol, start, end), TRUE)
                ELSE Returns(st, FALSE)
         ELSE Returns(st, FALSE)

\* mutant of in_home_ranks: one rank too many on either side
in_home_ranks_three(piece_color, square) ==
  \/ (piece_color = "white" /\ square[2] \in {1, 2, 3})
  \/ (piece_color = "black" /\ square[2] \in {6, 7, 8})

\* lines 101-102: the square is on the two home ranks of the colour
in_home_ranks(piece_color, square) ==
  \/ (piece_color = "white" /\ square[2] \in {1, 2})
  \/ (piece_color = "black" /\ square[2] \in {7, 8})

\* mutant of not_eligible: a second placement asks for one loss only
not_eligible_one_loss(lost_pieces, placed) ==
  Len(lost_pieces) < 1 \/ (Len(placed) >= 1 /\ Len(lost_pieces) < 1)

\* mutant of not_eligible: no loss is needed
not_eligible_never(lost_pieces, placed) == FALSE

\* mutant of not_eligible: every placement made uses up two losses
not_eligible_fresh_loss(lost_pieces, placed) ==
  Len(lost_pieces) < 1 \/ (Len(placed) >= 1 /\ Len(lost_pieces) < 3)

\* line 109: too few major pieces lost for this placement
not_eligible(lost_pieces, placed) ==
  Len(lost_pieces) < 1 \/ (Len(placed) >= 1 /\ Len(lost_pieces) < 2)

enter_fairy_piece(st, piece, square) ==
  IF square \notin DOMAIN st.board THEN Returns(st, FALSE)
  ELSE IF piece \notin DOMAIN piece_mapping THEN Returns(st, FALSE)
  ELSE
    LET piece_color == IF isupper(piece) THEN "white" ELSE "black"
        lost_pieces == st.lost_major_pieces[piece_color]
        placed == st.fairy_pieces_placed[piece_color]
    IN IF InSeq(piece, placed) THEN Returns(st, FALSE)
       ELSE IF st.turn # piece_color THEN Returns(st, FALSE)
       ELSE IF ~ in_home_ranks(piece_color, square) THEN Returns(st, FALSE)
       ELSE IF st.board[square] # "." THEN Returns(st, FALSE)
       ELSE IF not_eligible(lost_pieces, placed) THEN Returns(st, FALSE)
       ELSE Returns(register_fairy_piece_placement(
                      update_board(switch_turn(st), piece, NoSquare, square),
                      piece, piece_color), TRUE)

(***************************************************************************)
(* The state machine: one action per public operation.                     *)
(***************************************************************************)
Init ==
  /\ board = InitialBoard
  /\ turn = "white"
  /\ game_state = "UNFINISHED"
  /\ lost_major_pieces = [c \in {"white", "black"} |-> <<>>]
  /\ fairy_pieces_placed = [c \in {"white", "black"} |-> <<>>]
  /\ call = [op |-> "init", ret |-> TRUE]

MakeMove ==
  \E start \in SquareInputs, end \in SquareInputs :
    \E r \in { make_move(State, start, end) } :
       /\ board' = r.st.board
       /\ turn' = r.st.turn
       /\ game_state' = r.st.game_state
       /\ lost_major_pieces' = r.st.lost_major_pieces
       /\ fairy_pieces_placed' = r.st.fairy_pieces_placed
       /\ call' = [op |-> "make_move", ret |-> r.ret]

EnterFairyPiece ==
  \E piece \in PieceInputs, square \in SquareInputs :
    \E r \in { enter_fairy_piece(State, piece, square) } :
       /\ board' = r.st.board
       /\ turn' = r.st.turn
       /\ game_state' = r.st.game_state
       /\ lost_major_pieces' = r.st.lost_major_pieces
       /\ fairy_pieces_placed' = r.st.fairy_pieces_placed
       /\ call' = [op |-> "enter_fairy_piece", ret |-> r.ret]

\* a client's call of the public method switch_turn, which returns None
SwitchTurn ==
  \E r \in { switch_turn(State) } :
    /\ turn' = r.turn
    /\ UNCHANGED <<board, game_state, lost_major_pieces, fairy_pieces_placed>>
    /\ call' = [op |-> "switch_turn", ret |-> None]

Next == MakeMove \/ EnterFairyPiece \/ SwitchTurn

Spec == Init /\ [][Next]_vars

(***************************************************************************)
(* The move rules as pure functions: a piece object is constructed on a    *)
(* board holding a bounded arrangement of pieces and asked for its valid   *)
(* moves.  The board is the two kings, the piece on one focal square and   *)
(* up to MaxBlockers knights on the squares around it.                     *)
(***************************************************************************)
NumFocusSquares == 5

MaxBlockers == 2

\* a2 h7 b2 h8 a1, then h1
FocusList == << <<1, 2>>, <<8, 7>>, <<2, 2>>, <<8, 8>>, <<1, 1>>, <<8, 1>> >>

FocusSquares == { FocusList[i] : i \in 1..Min(NumFocusSquares, Len(FocusList)) }

BlockerSymbols == {"N", "n"}

WindowOffsets == {-2, -1, 0, 1, 2}

\* the squares of the board around a focal square
Window(pos) ==
  { sq \in Squares64 : sq # pos /\ sq[1] - pos[1] \in WindowOffsets
                                /\ sq[2] - pos[2] \in WindowOffsets }

\* the ways to put at most n blockers on the cells: functions cell -> symbol
RECURSIVE Arrangements(_, _)
Arrangements(cells, n) ==
  IF n = 0 \/ cells = {} THEN { [c \in {} |-> "."] }
  ELSE LET c0 == CHOOSE c \in cells : \A d \in cells : c[1] < d[1] \/ (c[1] = d[1] /\ c[2] <= d[2])
           without == Arrangements(cells \ {c0}, n)
           with == { DictSet(a, c0, s) : a \in Arrangements(cells \ {c0}, n - 1),
                                         s \in BlockerSymbols }
       IN without \cup with

\* a board with the kings on e1 and e8, sym on pos and the blockers of a
BoardWith(sym, pos, a) ==
  [sq \in Squares64 |->
     CASE sq = pos -> sym
       [] sq \in DOMAIN a -> a[sq]
       [] sq = <<5, 1>> /\ sym # "K" -> "K"
       [] sq = <<5, 8>> /\ sym # "k" -> "k"
       [] OTHER -> "."]

InitMoves ==
  /\ \E pos \in FocusSquares :
       \E a \in Arrangements(Window(pos), MaxBlockers) :
         \E sym \in UpperSymbols \cup LowerSymbols :
           board = BoardWith(sym, pos, a)
  /\ turn = "white"
  /\ game_state = "UNFINISHED"
  /\ lost_major_pieces = [c \in {"white", "black"} |-> <<>>]
  /\ fairy_pieces_placed = [c \in {"white", "black"} |-> <<>>]
  /\ call = [op |-> "init", ret |-> TRUE]

\* piece_class(start, piece_color, board).get_valid_moves(start) for the
\* piece standing on start
GetValidMoves ==
  \E start \in FocusSquares :
    /\ board[start] # "."
    /\ LET piece_symbol == board[start]
           piece_class == piece_mapping[piece_symbol]
           piece_color == IF isupper(piece_symbol) THEN "white" ELSE "black"
       IN call' = [op |-> "get_valid_moves", start |-> start,
                   ret |-> get_valid_moves(piece_class, board, piece_color, start)]
    /\ UNCHANGED <<board, turn, game_state, lost_major_pieces, fairy_pieces_placed>>

NextMoves == GetValidMoves

SpecMoves == InitMoves /\ [][NextMoves]_vars

(***************************************************************************)
(* The game with a record of play: the same two operations on the same     *)
(* object, where call also keeps, for each colour, its last two accepted   *)
(* calls with the numbers of major pieces it had lost and of pieces it had *)
(* placed when it made them.  The record is an observation of the play;    *)
(* no operation reads it.                                                  *)
(***************************************************************************)
LastTwo(s) == IF Len(s) > 2 THEN Tail(s) ELSE s

\* the record after a call of op by the colour to move that returned ret
Recorded(op, ret) ==
  IF ret
    THEN [call.hist EXCEPT ![turn] =
            LastTwo(Append(@, [op |-> op,
                               lost |-> Len(lost_major_pieces[turn]),
                               placed |-> Len(fairy_pieces_placed[turn])]))]
    ELSE call.hist

InitHistory ==
  /\ board = InitialBoard
  /\ turn = "white"
  /\ game_state = "UNFINISHED"
  /\ lost_major_pieces = [c \in {"white", "black"} |-> <<>>]
  /\ fairy_pieces_placed = [c \in {"white", "black"} |-> <<>>]
  /\ call = [op |-> "init", ret |-> TRUE, hist |-> [c \in {"white", "black"} |-> <<>>]]

MakeMoveHistory ==
  \E start \in SquareInputs, end \in SquareInputs :
    \E r \in { make_move(State, start, end) } :
      /\ board' = r.st.board
      /\ turn' = r.st.turn
      /\ game_state' = r.st.game_state
      /\ lost_major_pieces' = r.st.lost_major_pieces
      /\ fairy_pieces_placed' = r.st.fairy_pieces_placed
      /\ call' = [op |-> "make_move", ret |-> r.ret, hist |-> Recorded("make_move", r.ret)]

EnterFairyPieceHistory ==
  \E piece \in PieceInputs, square \in SquareInputs :
    \E r \in { enter_fairy_piece(State, piece, square) } :
      /\ board' = r.st.board
      /\ turn' = r.st.turn
      /\ game_state' = r.st.game_state
      /\ lost_major_pieces' = r.st.lost_major_pieces
      /\ fairy_pieces_placed' = r.st.fairy_pieces_placed
      /\ call' = [op |-> "enter_fairy_piece", ret |-> r.ret,
                  hist |-> Recorded("enter_fairy_piece", r.ret)]

SwitchTurnHistory ==
  \E r \in { switch_turn(State) } :
    /\ turn' = r.turn
    /\ UNCHANGED <<board, game_state, lost_major_pieces, fairy_pieces_placed>>
    /\ call' = [op |-> "switch_turn", ret |-> None, hist |-> call.hist]

NextHistory == MakeMoveHistory \/ EnterFairyPieceHistory \/ SwitchTurnHistory

SpecHistory == InitHistory /\ [][NextHistory]_vars

(***************************************************************************)
(* The game where enter_fairy_piece is also called with the king symbols,  *)
(* which are keys of the piece mapping like every other piece symbol.      *)
(***************************************************************************)
KingInputs == {"K", "k"}

EnterKing ==
  \E piece \in KingInputs, square \in SquareInputs :
    \E r \in { enter_fairy_piece(State, piece, square) } :
      /\ board' = r.st.board
      /\ turn' = r.st.turn
      /\ game_state' = r.st.game_state
      /\ lost_major_pieces' = r.st.lost_major_pieces
      /\ fairy_pieces_placed' = r.st.fairy_pieces_placed
      /\ call' = [op |-> "enter_fairy_piece", ret |-> r.ret]

NextKings == MakeMove \/ EnterFairyPiece \/ EnterKing \/ SwitchTurn

SpecKings == Init /\ [][NextKings]_vars

(***************************************************************************)
(* Vocabulary of the properties.                                           *)
(***************************************************************************)
Colors == {"white", "black"}

Other(c) == IF c = "white" THEN "black" ELSE "white"

FairySymbols == {"F", "H", "f", "h"}

\* the colour a symbol stands for
ColorOf(s) ==
  IF s \in UpperSymbols THEN "white" ELSE IF s \in LowerSymbols THEN "black" ELSE "none"

\* the colour enter_fairy_piece is called for
CallerOf(piece) == IF isupper(piece) THEN "white" ELSE "black"

KingOf(c) == IF c = "white" THEN "K" ELSE "k"

WinOf(c) == IF c = "white" THEN "WHITE_WON" ELSE "BLACK_WON"

HomeRanks(c) == IF c = "white" THEN {1, 2} ELSE {7, 8}

Won == game_state \in {"WHITE_WON", "BLACK_WON"}

\* the squares a step empties, and the squares it puts a piece on
Vacated == { sq \in Squares64 : board[sq] # "." /\ board'[sq] = "." }

Filled == { sq \in Squares64 : board'[sq] # "." /\ board'[sq] # board[sq] }

AcceptedMove == call'.op = "make_move" /\ call'.ret

AcceptedPlacement == call'.op = "enter_fairy_piece" /\ call'.ret

\* the step is a make_move or enter_fairy_piece call that returned False
RejectedCall == call'.op \in {"make_move", "enter_fairy_piece"} /\ ~ call'.ret

\* C1 (as claimed): once the game is won, every enter_fairy_piece call returns
\* False and leaves the board, the turn, the lost-major-piece lists and the
\* placement record unchanged.
C1_PlacementRejectedOnceWon ==
  [][ (Won /\ call'.op = "enter_fairy_piece")
        => /\ call'.ret = FALSE
           /\ UNCHANGED <<board, turn, lost_major_pieces, fairy_pieces_placed>> ]_vars

\* C2: once the game is won, every make_move call returns False and leaves the
\* board, the turn, the game state and the lost-major-piece lists unchanged.
C2_MoveRejectedOnceWon ==
  [][ (Won /\ call'.op = "make_move")
        => /\ call'.ret = FALSE
           /\ UNCHANGED <<board, turn, game_state, lost_major_pieces>> ]_vars

\* a move was called, and rejected, in a game already won
C2_Witness == Won /\ call.op = "make_move" /\ call.ret = FALSE

\* the step is an accepted move onto the king of the colour opposite to the mover
C3_KingTaken ==
  /\ AcceptedMove
  /\ \E e \in Filled : board[e] = KingOf(Other(ColorOf(board'[e])))

C3_Step ==
  /\ C3_KingTaken =>
       /\ game_state = "UNFINISHED"
       /\ \E s \in Vacated, e \in Filled :
            /\ game_state' = WinOf(ColorOf(board[s]))
            /\ board' = [board EXCEPT ![s] = ".", ![e] = board[s]]
  /\ ~ C3_KingTaken => game_state' = game_state

\* C3: the game starts UNFINISHED and leaves UNFINISHED exactly on an accepted
\* move whose destination held the king opposite to the mover; the state is
\* then the mover's win and the move is applied; no other step changes it.
C3_StateChangesOnKingCapture ==
  (game_state = "UNFINISHED") /\ [][C3_Step]_vars

\* White has just taken the black king
C3_Witness ==
  /\ game_state = "WHITE_WON" /\ call.op = "make_move" /\ call.ret
  /\ \A sq \in Squares64 : board[sq] # "k"

C4_Step ==
  LET kingTaken == \E e \in Filled : board[e] \in {"K", "k"}
  IN /\ (AcceptedMove /\ ~ kingTaken) => turn' = Other(turn)
     /\ AcceptedPlacement => turn' = Other(turn)
     /\ (AcceptedMove /\ kingTaken) => turn' = turn
     /\ RejectedCall => turn' = turn

\* C4: White moves first; the turn flips after every accepted non-winning move
\* and every accepted placement, and stays after a winning move and after
\* every rejected call.
C4_TurnAlternates ==
  (turn = "white") /\ [][C4_Step]_vars

\* Black's accepted placement has handed the turn to White
C4_Witness ==
  /\ call.op = "enter_fairy_piece" /\ call.ret
  /\ turn = "white" /\ game_state = "UNFINISHED"

\* C5: a call that returns False leaves the board, the turn, the game state,
\* both lost-major-piece lists and both placement records exactly as they
\* were; the same call, repeated, therefore meets the same game and returns
\* False again.
C5_RejectionNeverMutates ==
  [][ RejectedCall =>
        UNCHANGED <<board, turn, game_state, lost_major_pieces,
                    fairy_pieces_placed>> ]_vars

\* a move was rejected in the middle of a game, after a capture
C5_Witness ==
  /\ call.op = "make_move" /\ call.ret = FALSE
  /\ game_state = "UNFINISHED"
  /\ Len(lost_major_pieces["white"]) + Len(lost_major_pieces["black"]) >= 1

C6_BadMovesRejected ==
  \A start \in SquareInputs, end \in SquareInputs :
    ( \/ start \notin Squares64
      \/ end \notin Squares64
      \/ board[start] = "."
      \/ ColorOf(board[start]) # turn )
      => ~ make_move(State, start, end).ret

\* C6: make_move returns False when a square is off the board, the starting
\* square is empty or its piece is not of the colour to move; so every
\* accepted move moves a piece of the colour to move.
C6_MoveNeedsOwnPiece ==
  /\ [] C6_BadMovesRejected
  /\ [][ AcceptedMove =>
           \E s \in Vacated, e \in Filled :
             ColorOf(board[s]) = turn /\ board'[e] = board[s] ]_vars

\* Black has moved one of its pieces in a position where the players also
\* name empty squares and squares holding White's pieces
C6_Witness ==
  /\ call.op = "make_move" /\ call.ret /\ turn = "white"
  /\ game_state = "UNFINISHED"
  /\ \E s \in InputSquares : board[s] = "."
  /\ \E s \in InputSquares : ColorOf(board[s]) = "black"

\* C7: a placement is accepted only with at least one major piece lost, and
\* after one placement only with at least two; with no loss every placement is
\* rejected; with exactly one loss the first placement on an empty home-rank
\* square on the colour's turn is accepted and a second one is rejected.
C7_EligibilityGate ==
  \A piece \in PieceInputs, square \in SquareInputs :
    LET accepted == enter_fairy_piece(State, piece, square).ret
        c == CallerOf(piece)
        lost == Len(lost_major_pieces[c])
        placed == Len(fairy_pieces_placed[c])
    IN \A ret \in { accepted } :
         /\ ret => (lost >= 1 /\ (placed >= 1 => lost >= 2))
         /\ lost = 0 => ~ ret
         /\ ( /\ lost = 1 /\ placed = 0
              /\ piece \in FairySymbols /\ c = turn
              /\ square \in Squares64 /\ square[2] \in HomeRanks(c)
              /\ board[square] = "." ) => ret
         /\ (lost = 1 /\ placed >= 1) => ~ ret

\* a colour with one loss and one placement has had a further placement
\* rejected on its turn, with an empty home-rank square at hand
C7_Witness ==
  \E c \in Colors :
    /\ Len(lost_major_pieces[c]) = 1 /\ Len(fairy_pieces_placed[c]) = 1
    /\ turn = c /\ call.op = "enter_fairy_piece" /\ call.ret = FALSE
    /\ \E sq \in InputSquares : sq[2] \in HomeRanks(c) /\ board[sq] = "."

C8_BadPlacementsRejected ==
  \A piece \in PieceInputs, square \in SquareInputs :
    LET c == CallerOf(piece)
    IN ( \/ square \notin Squares64
         \/ square[2] \notin HomeRanks(c)
         \/ board[square] # "."
         \/ c # turn
         \/ InSeq(piece, fairy_pieces_placed[c]) )
         => ~ enter_fairy_piece(State, piece, square).ret

\* C8: enter_fairy_piece returns False when the square is off the board, off
\* the colour's home ranks or occupied, when the piece is not of the colour to
\* move, or when the colour has placed this kind already; so an accepted
\* placement fills an empty square with a kind the colour had not placed.
C8_PlacementPreconditions ==
  /\ [] C8_BadPlacementsRejected
  /\ [][ AcceptedPlacement =>
           \E sq \in Filled :
             /\ board[sq] = "." /\ sq[2] \in HomeRanks(turn)
             /\ ColorOf(board'[sq]) = turn
             /\ ~ InSeq(board'[sq], fairy_pieces_placed[turn])
             /\ fairy_pieces_placed'[turn] = Append(fairy_pieces_placed[turn], board'[sq]) ]_vars

\* a colour that has placed a piece is to move again, and its last call, a
\* placement, was rejected
C8_Witness ==
  \E c \in Colors :
    /\ Len(fairy_pieces_placed[c]) >= 1 /\ turn = c
    /\ call.op = "enter_fairy_piece" /\ call.ret = FALSE
    /\ \E sq \in InputSquares : sq[2] \in HomeRanks(c) /\ board[sq] # "."

\* C9 (as claimed): a call naming any piece other than a Falcon or a Hunter is
\* rejected, so each colour's placement record holds only Falcon and Hunter,
\* at most one of each.
C9_OnlyFalconAndHunterEnter ==
  /\ \A piece \in PieceInputs \ FairySymbols, square \in SquareInputs :
       ~ enter_fairy_piece(State, piece, square).ret
  /\ \A c \in Colors :
       /\ Len(fairy_pieces_placed[c]) <= 2
       /\ \A i \in 1..Len(fairy_pieces_placed[c]) :
            /\ fairy_pieces_placed[c][i] \in FairySymbols
            /\ \A j \in 1..Len(fairy_pieces_placed[c]) :
                 fairy_pieces_placed[c][i] = fairy_pieces_placed[c][j] => i = j

\* C10: the board maps each of the 64 squares, and no other key, to "." or to
\* one piece symbol, in every reachable state.
C10_BoardTotal ==
  /\ DOMAIN board = Squares64
  /\ \A sq \in Squares64 : board[sq] \in Symbols

\* a piece has been placed after moves and a capture changed the board
C10_Witness ==
  /\ call.op = "enter_fairy_piece" /\ call.ret
  /\ \E sq \in Squares64 : InitialBoard[sq] # "." /\ board[sq] = "."

\* the claim's major pieces: Queen, Rook, Bishop, Knight of either colour
MajorKinds == {"Q", "R", "B", "N"}

C11_Step ==
  /\ AcceptedMove =>
       \E e \in Filled :
         /\ IF board[e] # "." /\ upper(board[e]) \in MajorKinds
              THEN lost_major_pieces' =
                     [lost_major_pieces EXCEPT ![ColorOf(board[e])] = Append(@, board[e])]
              ELSE lost_major_pieces' = lost_major_pieces
         /\ lost_major_pieces'[ColorOf(board'[e])] = lost_major_pieces[ColorOf(board'[e])]
  /\ ~ AcceptedMove => lost_major_pieces' = lost_major_pieces

\* C11: an accepted move onto an occupied square appends the captured piece
\* to the list of its colour iff it is a Queen, Rook, Bishop or Knight; other
\* captures, moves onto empty squares, placements and rejected calls leave
\* both lists unchanged, and the mover's own list never changes.
C11_CaptureBookkeeping == [][C11_Step]_vars

\* Black has lost its queen, counted; a Hunter that Black placed and a pawn
\* that White placed have been captured without being counted
C11_Witness ==
  /\ lost_major_pieces["black"] = <<"q">>
  /\ InSeq("h", fairy_pieces_placed["black"])
  /\ \A sq \in Squares64 : board[sq] # "h"
  /\ InSeq("P", fairy_pieces_placed["white"])
  /\ Cardinality({sq \in Squares64 : board[sq] = "P"}) = 8

\* squares whose content differs between the two states of a step
Changed == { sq \in Squares64 : board'[sq] # board[sq] }

C20_Step ==
  /\ AcceptedMove =>
       \E s \in Vacated, e \in Squares64 :
         /\ s # e
         /\ Changed = {s, e}
         /\ board' = [board EXCEPT ![s] = ".", ![e] = board[s]]
  /\ AcceptedPlacement =>
       \E e \in Squares64 :
         /\ board[e] = "."
         /\ board'[e] \in Symbols
         /\ Changed = {e}
         /\ lost_major_pieces' = lost_major_pieces
         /\ fairy_pieces_placed' =
              [fairy_pieces_placed EXCEPT ![turn] = Append(@, board'[e])]

\* C20: an accepted move empties its origin, puts the piece that stood there
\* on its destination and changes no other square; an accepted placement
\* changes exactly one square from empty to the placed piece, leaves both
\* lists of lost major pieces unchanged and records the piece for the placing
\* colour only.
C20_FrameOfBoardMutation == [][C20_Step]_vars

\* a fairy piece has been placed by one colour only, after a capturing move
C20_Witness ==
  /\ call.op = "enter_fairy_piece" /\ call.ret
  /\ fairy_pieces_placed["white"] # <<>>
  /\ fairy_pieces_placed["black"] = <<>>
  /\ lost_major_pieces["white"] # <<>>

(***************************************************************************)
(* Vocabulary of the properties of the move rules.  A query is the         *)
(* recorded call of get_valid_moves: the piece on call.start, its colour   *)
(* and the squares returned.                                               *)
(***************************************************************************)
Query == call.op = "get_valid_moves"

QueryKind == upper(board[call.start])

QueryColor == ColorOf(board[call.start])

Empty(sq) == board[sq] = "."

\* sq holds a piece of the colour opposite to c
Enemy(c, sq) == board[sq] # "." /\ ColorOf(board[sq]) = Other(c)

\* +1 toward rank 8 for White, -1 toward rank 1 for Black
Forward(c) == IF c = "white" THEN 1 ELSE -1

UnitSteps == {-1, 0, 1} \X {-1, 0, 1}

Abs(x) == IF x < 0 THEN -x ELSE x

\* directions are <<rank step, file step>>
Orthogonal == { d \in UnitSteps : Abs(d[1]) + Abs(d[2]) = 1 }

Diagonal == { d \in UnitSteps : Abs(d[1]) = 1 /\ Abs(d[2]) = 1 }

\* the directions the specification gives each sliding kind
SlidingDirections(kind, c) ==
  CASE kind = "R" -> Orthogonal
    [] kind = "B" -> Diagonal
    [] kind = "Q" -> Orthogonal \cup Diagonal
    [] kind = "F" -> { d \in UnitSteps : \/ d = <<-Forward(c), 0>>
                                         \/ d[1] = Forward(c) /\ d[2] # 0 }
    [] kind = "H" -> { d \in UnitSteps : \/ d = <<Forward(c), 0>>
                                         \/ d[1] = -Forward(c) /\ d[2] # 0 }

SlidingKinds == {"R", "B", "Q", "F", "H"}

\* the k-th square from pos in direction d (possibly off the board)
RaySquare(pos, d, k) == <<pos[1] + k * d[2], pos[2] + k * d[1]>>

\* the first k-1 squares from pos in direction d are all empty
ClearBefore(pos, d, k) == \A j \in 1..(k - 1) : Empty(RaySquare(pos, d, j))

C12_Policy ==
  \A d \in SlidingDirections(QueryKind, QueryColor), k \in 1..7 :
    LET sq == RaySquare(call.start, d, k)
    IN sq \in Squares64 =>
         /\ (Empty(sq) /\ ClearBefore(call.start, d, k)) => sq \in call.ret
         /\ (Enemy(QueryColor, sq) /\ ClearBefore(call.start, d, k)) => sq \in call.ret
         /\ (~ Empty(sq) /\ ~ Enemy(QueryColor, sq)) => sq \notin call.ret
         /\ ~ ClearBefore(call.start, d, k) => sq \notin call.ret

\* C12: along each direction of a Rook, Bishop, Queen, Falcon or Hunter the
\* valid moves contain every empty square up to the first occupied square or
\* the edge, contain the first occupied square iff it holds an enemy piece,
\* and contain no square beyond it; a friendly blocker is never included.
C12_SlidingPolicy == (Query /\ QueryKind \in SlidingKinds) => C12_Policy

\* a white rook on b2 with a friendly knight two squares up the file and an
\* enemy knight next to it on the rank
C12_Witness ==
  /\ Query /\ call.start = <<2, 2>> /\ board[<<2, 2>>] = "R"
  /\ board[<<2, 4>>] = "N" /\ board[<<3, 2>>] = "n"
  /\ <<2, 3>> \in call.ret /\ <<3, 2>> \in call.ret
  /\ <<2, 4>> \notin call.ret /\ <<4, 2>> \notin call.ret

\* sq is a square of the board and holds no piece
OnBoardEmpty(sq) == sq \in Squares64 /\ board[sq] = "."

StartRank(c) == IF c = "white" THEN 2 ELSE 7

\* the squares one and two steps ahead of the queried pawn
SingleStep == <<call.start[1], call.start[2] + Forward(QueryColor)>>

DoubleStep == <<call.start[1], call.start[2] + 2 * Forward(QueryColor)>>

OnStartRank == call.start[2] = StartRank(QueryColor)

PawnQuery == Query /\ QueryKind = "P"

\* C13: a pawn's single step forward is valid iff that square is empty; the
\* double step is valid iff the pawn is on its starting rank and both squares
\* ahead are empty.  A White pawn on a2 with no enemy on b3 has exactly
\* {a3, a4} when both are empty, and neither once a3 is occupied.
C13_PawnForwardMoves ==
  PawnQuery =>
    /\ SingleStep \in call.ret <=> OnBoardEmpty(SingleStep)
    /\ DoubleStep \in call.ret <=>
         (OnStartRank /\ OnBoardEmpty(SingleStep) /\ OnBoardEmpty(DoubleStep))
    /\ (board[call.start] = "P" /\ call.start = <<1, 2>> /\ ~ Enemy("white", <<2, 3>>)) =>
         /\ (Empty(<<1, 3>>) /\ Empty(<<1, 4>>)) => call.ret = { <<1, 3>>, <<1, 4>> }
         /\ ~ Empty(<<1, 3>>) => (<<1, 3>> \notin call.ret /\ <<1, 4>> \notin call.ret)

\* a white pawn on a2 with a3 occupied and a4 empty has no forward move
C13_Witness ==
  /\ PawnQuery /\ call.start = <<1, 2>> /\ board[<<1, 2>>] = "P"
  /\ ~ Empty(<<1, 3>>) /\ Empty(<<1, 4>>) /\ Empty(<<2, 3>>)
  /\ call.ret = {}

\* C14 (as claimed): for a pawn on its starting rank the landing square of
\* the double step is in the valid moves whenever the single-step square is
\* empty, even when the landing square is occupied.
C14_LandingSquareUnchecked ==
  (PawnQuery /\ OnStartRank /\ Empty(SingleStep)) => DoubleStep \in call.ret

\* C14 (amended): for a pawn on its starting rank both the single-step square
\* and the landing square of the double step are checked for emptiness: the
\* landing square is in the valid moves exactly when both squares are empty,
\* so it is offered when both are empty, and refused when the landing square
\* is occupied or the single-step square is occupied; the single step is
\* valid whenever the single-step square is empty.
C14_LandingSquareChecked ==
  (PawnQuery /\ OnStartRank) =>
    /\ DoubleStep \in call.ret <=> (Empty(SingleStep) /\ Empty(DoubleStep))
    /\ Empty(SingleStep) => SingleStep \in call.ret

\* a black pawn on h7 with h6 empty and h5 occupied may go to h6 only
C14_Witness ==
  /\ PawnQuery /\ call.start = <<8, 7>> /\ board[<<8, 7>>] = "p"
  /\ Empty(<<8, 6>>) /\ ~ Empty(<<8, 5>>)
  /\ <<8, 6>> \in call.ret /\ <<8, 5>> \notin call.ret

\* the two squares diagonally ahead of the queried pawn (possibly off the board)
DiagonalSteps ==
  { <<call.start[1] + dc, call.start[2] + Forward(QueryColor)>> : dc \in {-1, 1} }

\* C15: each square diagonally forward of a pawn is in its valid moves iff it
\* is on the board and holds a piece of the opposite colour; the pawn never
\* moves diagonally onto an empty square or a friendly piece and never
\* captures straight ahead.
C15_PawnDiagonalMoves ==
  PawnQuery =>
    /\ \A sq \in DiagonalSteps :
         sq \in call.ret <=> (sq \in Squares64 /\ Enemy(QueryColor, sq))
    /\ \A sq \in call.ret : sq[1] = call.start[1] => Empty(sq)
    /\ \A sq \in call.ret : sq[1] # call.start[1] => sq \in DiagonalSteps

\* a white pawn on b2 facing an enemy knight on b3, with another enemy
\* knight on a3 and c3 empty, has the capture on a3 as its only move
C15_Witness ==
  /\ PawnQuery /\ call.start = <<2, 2>> /\ board[<<2, 2>>] = "P"
  /\ board[<<2, 3>>] = "n" /\ board[<<1, 3>>] = "n" /\ board[<<3, 3>>] = "."
  /\ call.ret = { <<1, 3>> }

\* the 8 L-shaped offsets and the 8 adjacent offsets, as <<rank step, file step>>
KnightOffsets ==
  { d \in {-2, -1, 1, 2} \X {-2, -1, 1, 2} : Abs(d[1]) + Abs(d[2]) = 3 }

KingOffsets == UnitSteps \ { <<0, 0>> }

SteppingOffsets(kind) == IF kind = "N" THEN KnightOffsets ELSE KingOffsets

\* the candidate squares of a stepping piece that are on the board and are
\* empty or hold an enemy piece
StepPolicy(c, pos, offsets) ==
  { sq \in { RaySquare(pos, d, 1) : d \in offsets } :
      sq \in Squares64 /\ (Empty(sq) \/ Enemy(c, sq)) }

\* C16: for a Knight and a King a candidate square is in the valid moves iff
\* it is on the board and is empty or holds an enemy piece; pieces between
\* origin and candidate never block and friendly candidates are excluded.
C16_SteppingPieces ==
  (Query /\ QueryKind \in {"N", "K"}) =>
    /\ Cardinality(SteppingOffsets(QueryKind)) = 8
    /\ call.ret = StepPolicy(QueryColor, call.start, SteppingOffsets(QueryKind))

\* a white knight on b2 jumps over the enemy knight on b3 to a4 but not onto
\* the friendly knight on c4; four of its candidates are off the board
C16_Witness ==
  /\ Query /\ call.start = <<2, 2>> /\ board[<<2, 2>>] = "N"
  /\ board[<<2, 3>>] = "n" /\ board[<<3, 4>>] = "N"
  /\ call.ret = { <<1, 4>>, <<4, 1>>, <<4, 3>> }

\* the board with the colours of all pieces exchanged
SwapColors(b) ==
  [sq \in DOMAIN b |->
     IF b[sq] = "." THEN "."
     ELSE CHOOSE s \in UpperSymbols \cup LowerSymbols :
            upper(s) = upper(b[sq]) /\ s # b[sq]]

MirrorKind(kind) == IF kind = "F" THEN "H" ELSE "F"

\* sq lies straight behind pos on its file, seen by colour c
BehindOnFile(c, pos, sq) == sq[1] = pos[1] /\ (sq[2] - pos[2]) * Forward(c) < 0

AheadOnFile(c, pos, sq) == sq[1] = pos[1] /\ (sq[2] - pos[2]) * Forward(c) > 0

AheadOnDiagonal(c, pos, sq) ==
  Abs(sq[1] - pos[1]) = Abs(sq[2] - pos[2]) /\ (sq[2] - pos[2]) * Forward(c) > 0

BehindOnDiagonal(c, pos, sq) ==
  Abs(sq[1] - pos[1]) = Abs(sq[2] - pos[2]) /\ (sq[2] - pos[2]) * Forward(c) < 0

\* C17: a Falcon slides only backward along its file and along the two
\* forward diagonals, a Hunter only forward along its file and along the two
\* backward diagonals, forward being toward rank 8 for White and rank 1 for
\* Black; every such direction is open to it; neither moves sideways; a
\* White Falcon moves as a Black Hunter does and a White Hunter as a Black
\* Falcon.
C17_FalconHunterDirections ==
  (Query /\ QueryKind \in {"F", "H"}) =>
    LET c == QueryColor
        pos == call.start
    IN /\ \A sq \in call.ret :
            /\ sq[2] # pos[2]
            /\ QueryKind = "F" => (BehindOnFile(c, pos, sq) \/ AheadOnDiagonal(c, pos, sq))
            /\ QueryKind = "H" => (AheadOnFile(c, pos, sq) \/ BehindOnDiagonal(c, pos, sq))
       /\ \A d \in SlidingDirections(QueryKind, c) :
            OnBoardEmpty(RaySquare(pos, d, 1)) => RaySquare(pos, d, 1) \in call.ret
       /\ call.ret = get_valid_moves(piece_mapping[MirrorKind(QueryKind)],
                                     SwapColors(board), Other(c), pos)
       /\ FalconDirections("white") = HunterDirections("black")
       /\ HunterDirections("white") = FalconDirections("black")

\* a black falcon on b2 goes back up its file as far as the white knight on
\* b4 and down both diagonals toward rank 1, and nowhere else
C17_Witness ==
  /\ Query /\ call.start = <<2, 2>> /\ board[<<2, 2>>] = "f"
  /\ board[<<2, 4>>] = "N"
  /\ call.ret = { <<2, 3>>, <<2, 4>>, <<1, 1>>, <<3, 1>> }

\* C18: the Queen's valid moves are the union of the valid moves a Rook and
\* a Bishop of the same colour have from the same square on the same board.
C18_QueenIsRookAndBishop ==
  (Query /\ QueryKind = "Q") =>
    call.ret = Rook_get_valid_moves(board, QueryColor, call.start)
                 \cup Bishop_get_valid_moves(board, QueryColor, call.start)

\* a black queen on b2 with pieces on a rook ray and on a bishop ray
C18_Witness ==
  /\ Query /\ call.start = <<2, 2>> /\ board[<<2, 2>>] = "q"
  /\ board[<<2, 3>>] = "N" /\ board[<<3, 3>>] = "n"
  /\ <<2, 3>> \in call.ret /\ <<3, 3>> \notin call.ret
  /\ <<1, 1>> \in call.ret /\ <<1, 2>> \in call.ret

\* the valid moves with captures decided by looking at the destination only
DirectSlide(c, pos, dirs) ==
  { sq \in { RaySquare(pos, d, k) : d \in dirs, k \in 1..7 } :
      /\ sq \in Squares64
      /\ Empty(sq) \/ Enemy(c, sq)
      /\ \E d \in dirs, k \in 1..7 : sq = RaySquare(pos, d, k) /\ ClearBefore(pos, d, k) }

DirectPawn(c, pos) ==
  LET one == <<pos[1], pos[2] + Forward(c)>>
      two == <<pos[1], pos[2] + 2 * Forward(c)>>
  IN (IF OnBoardEmpty(one) THEN {one} ELSE {})
     \cup (IF OnBoardEmpty(one) /\ pos[2] = StartRank(c) /\ OnBoardEmpty(two)
             THEN {two} ELSE {})
     \cup { sq \in { <<pos[1] - 1, pos[2] + Forward(c)>>, <<pos[1] + 1, pos[2] + Forward(c)>> } :
              sq \in Squares64 /\ Enemy(c, sq) }

DirectMoves(kind, c, pos) ==
  CASE kind = "P" -> DirectPawn(c, pos)
    [] kind \in {"N", "K"} -> StepPolicy(c, pos, SteppingOffsets(kind))
    [] OTHER -> DirectSlide(c, pos, SlidingDirections(kind, c))

\* C19: for every piece kind, colour, origin and board, the valid moves the
\* scan of all opponent-occupied squares gives equal the valid moves a direct
\* look at the destination's occupant gives.
C19_ScanEqualsDirectCheck ==
  Query => call.ret = DirectMoves(QueryKind, QueryColor, call.start)

\* a black bishop on b2 takes the white knight on c3 and is stopped by its
\* own knight on a1
C19_Witness ==
  /\ Query /\ call.start = <<2, 2>> /\ board[<<2, 2>>] = "b"
  /\ board[<<3, 3>>] = "N" /\ board[<<1, 1>>] = "n"
  /\ <<3, 3>> \in call.ret /\ <<1, 1>> \notin call.ret /\ <<4, 4>> \notin call.ret

\* the fairy symbols of colour c that can be asked for
FairyInputs(c) == { p \in PieceInputs \cap FairySymbols : ColorOf(p) = c }

\* the empty home-rank squares of colour c among the squares calls use
FreeHomeSquares(c) ==
  { sq \in InputSquares : sq[2] \in HomeRanks(c) /\ board[sq] = "." }

\* colour c's last accepted call was a placement and c has lost no major
\* piece since it made that call
JustPlaced(c) ==
  /\ call.hist[c] # <<>>
  /\ call.hist[c][Len(call.hist[c])].op = "enter_fairy_piece"
  /\ call.hist[c][Len(call.hist[c])].lost = Len(lost_major_pieces[c])

\* C21: eligibility counts total losses, not losses since the last
\* placement: a colour that has lost two major pieces and whose last
\* accepted call was a placement, with no loss since, has the placement of
\* its other fairy piece on an empty home-rank square accepted on its turn.
C21_TotalLossesCount ==
  \A c \in Colors :
    (turn = c /\ JustPlaced(c) /\ Len(lost_major_pieces[c]) >= 2) =>
      \A piece \in FairyInputs(c), square \in FreeHomeSquares(c) :
        ~ InSeq(piece, fairy_pieces_placed[c]) =>
          enter_fairy_piece(State, piece, square).ret

\* a colour lost two major pieces before placing anything and then had its
\* Falcon and its Hunter accepted on two consecutive turns, with no loss in
\* between
C21_Witness ==
  \E c \in Colors :
    /\ call.op = "enter_fairy_piece" /\ call.ret
    /\ Len(call.hist[c]) = 2
    /\ call.hist[c][1] = [op |-> "enter_fairy_piece", lost |-> 2, placed |-> 0]
    /\ call.hist[c][2] = [op |-> "enter_fairy_piece", lost |-> 2, placed |-> 1]
    /\ Len(lost_major_pieces[c]) = 2
    /\ { upper(fairy_pieces_placed[c][i]) : i \in 1..Len(fairy_pieces_placed[c]) } = {"F", "H"}

\* the number of Falcon and Hunter placements colour c has made
FairyPlacements(c) ==
  Cardinality({ i \in 1..Len(fairy_pieces_placed[c]) : fairy_pieces_placed[c][i] \in FairySymbols })

\* the number of colour c's Falcons and Hunters on the board
FairiesOnBoard(c) ==
  Cardinality({ sq \in Squares64 : board[sq] \in FairySymbols /\ ColorOf(board[sq]) = c })

\* C23: for each colour the number of Falcon and Hunter placements it has
\* made is at most 2 and at most the number of major pieces it has lost, and
\* so is the number of its Falcons and Hunters on the board.
C23_FairiesWithinLosses ==
  \A c \in Colors :
    /\ FairyPlacements(c) <= 2
    /\ FairyPlacements(c) <= Len(lost_major_pieces[c])
    /\ FairiesOnBoard(c) <= FairyPlacements(c)

\* a colour with two losses has its Falcon and its Hunter on the board, and
\* a colour with one loss has placed one of them
C23_Witness ==
  \E c \in Colors :
    /\ Len(lost_major_pieces[c]) = 2
    /\ FairyPlacements(c) = 2 /\ FairiesOnBoard(c) = 2
    /\ Len(lost_major_pieces[Other(c)]) = 1
    /\ FairyPlacements(Other(c)) = 1

\* the number of kings of colour c on the board
Kings(c) == Cardinality({ sq \in Squares64 : board[sq] = KingOf(c) })

\* C22 (as claimed): the game is unfinished iff each colour has exactly one
\* king on the board, White has won iff there is no black king, Black has
\* won iff there is no white king, and no colour has more than one king.
C22_KingStateConsistency ==
  /\ game_state = "UNFINISHED" <=> (Kings("white") = 1 /\ Kings("black") = 1)
  /\ game_state = "WHITE_WON" <=> Kings("black") = 0
  /\ game_state = "BLACK_WON" <=> Kings("white") = 0
  /\ \A c \in Colors : Kings(c) <= 1

FarthestRank(c) == IF c = "white" THEN 8 ELSE 1

\* the game object with the queried piece's colour to move
StateToMove == [State EXCEPT !.turn = QueryColor]

\* C24: a pawn on its farthest rank has no valid move, so every make_move
\* call from its square is rejected and leaves the pawn in place and the
\* state unchanged; a pawn's valid moves, on the a- and h-file too, are
\* squares of the board.
C24_NoPromotion ==
  PawnQuery =>
    /\ call.ret \subseteq Squares64
    /\ call.start[2] = FarthestRank(QueryColor) =>
         /\ call.ret = {}
         /\ \A end \in Squares64 \cup OffBoardInputs :
              \E r \in { make_move(StateToMove, call.start, end) } :
                ~ r.ret /\ r.st = StateToMove

\* a white pawn on h8 next to an enemy knight on g8 has no valid move
C24_Witness ==
  /\ PawnQuery /\ call.start = <<8, 8>> /\ board[<<8, 8>>] = "P"
  /\ board[<<7, 8>>] = "n"
  /\ call.ret = {}

====
